---- MODULE Spec2Model ----
(***************************************************************************)
(* Model of the patch engine of open-codex (REFACTOR/src/core/patch.py):   *)
(* the grammar parser (Parser), the context locator (find_context), the    *)
(* commit builder (patch_to_commit, _get_updated_file) and the applicator  *)
(* (process_patch) with its three injected operations.                     *)
(*                                                                         *)
(* A Python str is a sequence of atoms.  An atom is one character ("a",    *)
(* "b", "-", "+", the line terminator NL) or one of the marker words of    *)
(* the grammar ("*** ", "Update File: ", "@@ ", ...), so that              *)
(* str.startswith(p) is "p is a prefix of the sequence" and s[len(p):] is  *)
(* the rest of the sequence.  Indices keep the source's 0-based values.    *)
(***************************************************************************)
EXTENDS Integers, Sequences, FiniteSets, TLC

VARIABLES
    entry,      \* the entry point called: process_patch, text_to_patch, patch_to_commit
    pc,         \* position of the call
    text,       \* the patch text (argument `text`)
    files,      \* the caller's file store behind open_fn / write_fn / remove_fn
    orig,       \* the snapshot: dict path -> content
    lines,      \* Parser.lines
    index,      \* Parser.index
    actions,    \* Parser.patch.actions, a dict in insertion order
    fuzz,       \* Parser.fuzz
    cur,        \* locals of the directive being parsed (path, move_to, action)
    commit,     \* Commit.changes, a dict in insertion order
    bi,         \* patch_to_commit: position in patch.actions
    new_lines,  \* _get_updated_file: the working copy of the lines
    chi,        \* _get_updated_file: position in action.chunks
    ci,         \* position of the applicator in commit.changes
    oi,         \* operations already invoked for the change at ci
    paths,      \* process_patch: the paths returned by identify_files_needed
    ri,         \* process_patch: how many of paths have been read
    calls,      \* the injected operations invoked so far, in order
    outcomes,   \* for each of `calls`, whether the caller's operation completed or raised
    args,       \* the arguments of a direct call of find_context,
                \* get_command_approval or load_project_doc (<<>> otherwise)
    current,    \* load_project_doc: the directory the walk is in (its depth; 0 is the root)
    doc_path,   \* load_project_doc: the file chosen, or NoDocPath
    result      \* what the caller received: the return value or the exception

vars == <<entry, pc, text, files, orig, lines, index, actions, fuzz, cur,
          commit, bi, new_lines, chi, ci, oi, paths, ri, calls, outcomes, args, current, doc_path, result>>

----------------------------------------------------------------------------
(* Bounds of the model *)

MaxFileLines == 2
MaxChunkLines == 1
MaxChunks == 2
MaxDirectives == 2
MaxContextLines == 3
MaxCommandWords == 2

----------------------------------------------------------------------------
(* Python values *)

NL == "\n"
None == <<"<None>">>
Absent == <<"<absent>">>
EmptyStr == <<>>

Min(x, y) == IF x < y THEN x ELSE y
Max(x, y) == IF x > y THEN x ELSE y

\* bool(s) of an Optional[str]: None and "" are falsy
Truthy(s) == s /= None /\ s /= EmptyStr

\* s.startswith(prefix)
StartsWith(s, prefix) ==
    /\ Len(prefix) <= Len(s)
    /\ SubSeq(s, 1, Len(prefix)) = prefix

\* s.endswith("\n")
EndsWithNL(s) == Len(s) > 0 /\ s[Len(s)] = NL

\* s[n:]
DropPrefix(s, n) == SubSeq(s, n + 1, Len(s))

RECURSIVE SplitFrom(_, _, _)
SplitFrom(s, i, acc) ==
    IF i > Len(s)
    THEN IF acc = <<>> THEN <<>> ELSE <<acc>>
    ELSE IF s[i] = NL
         THEN <<acc>> \o SplitFrom(s, i + 1, <<>>)
         ELSE SplitFrom(s, i + 1, Append(acc, s[i]))

\* s.splitlines(): the terminator ends a line, and a terminator at the very end
\* of s opens no further (empty) line
SplitLines(s) == SplitFrom(s, 1, <<>>)

RECURSIVE JoinLines(_)
\* "\n".join(ls)
JoinLines(ls) ==
    IF ls = <<>> THEN <<>>
    ELSE IF Len(ls) = 1 THEN ls[1]
    ELSE ls[1] \o <<NL>> \o JoinLines(Tail(ls))

\* ls[start:end] = ins, with Python's clamping of the slice bounds
SliceAssign(ls, start, end, ins) ==
    LET n == Len(ls)
        s == Min(start, n)
        e == Max(s, Min(end, n))
    IN  SubSeq(ls, 1, s) \o ins \o SubSeq(ls, e + 1, n)

\* dict as a sequence of [key, val] in insertion order
RECURSIVE Keys(_)
Keys(d) == IF d = <<>> THEN {} ELSE {d[1].key} \cup Keys(Tail(d))

HasKey(d, k) == \E i \in 1..Len(d) : d[i].key = k

Lookup(d, k) == d[CHOOSE i \in 1..Len(d) : d[i].key = k].val

\* d[k] = v
Store(d, k, v) ==
    IF HasKey(d, k)
    THEN [i \in 1..Len(d) |-> IF d[i].key = k THEN [key |-> k, val |-> v] ELSE d[i]]
    ELSE Append(d, [key |-> k, val |-> v])

DiffError(what, arg) == [type |-> "DiffError", what |-> what, arg |-> arg]

----------------------------------------------------------------------------
(* find_context *)

RECURSIVE MatchAt(_, _, _, _, _)
\* the inner loop over context at candidate i: "match", "eof" (accepted at the
\* tail, returning at j) or "no"
MatchAt(ls, context, i, j, eof) ==
    IF j >= Len(context) THEN [r |-> "match", j |-> j]
    ELSE IF i + j >= Len(ls)
         THEN IF eof /\ j = Len(context) - 1
              THEN [r |-> "eof", j |-> j]
              ELSE [r |-> "no", j |-> j]
         ELSE IF ls[i + j + 1] /= context[j + 1]
              THEN [r |-> "no", j |-> j]
              ELSE MatchAt(ls, context, i, j + 1, eof)

RECURSIVE FindFrom(_, _, _, _)
\* the outer loop: for i in range(start, len(lines))
FindFrom(ls, context, i, eof) ==
    IF i >= Len(ls) THEN [found |-> FALSE, start |-> 0, end |-> 0]
    ELSE LET m == MatchAt(ls, context, i, 0, eof)
         IN  IF m.r = "eof" THEN [found |-> TRUE, start |-> i, end |-> i + m.j]
             ELSE IF m.r = "match"
                  THEN [found |-> TRUE, start |-> i, end |-> i + Len(context)]
                  ELSE FindFrom(ls, context, i + 1, eof)

\* mutant: the scan starts one line too late
find_context_late(ls, context, start, eof) ==
    IF context = <<>> THEN [found |-> TRUE, start |-> start, end |-> start]
    ELSE FindFrom(ls, context, start + 1, eof)

\* mutant: the scan starts at the first line whatever the start offset
find_context_from_top(ls, context, start, eof) ==
    IF context = <<>> THEN [found |-> TRUE, start |-> start, end |-> start]
    ELSE FindFrom(ls, context, 0, eof)

\* mutant: a window that runs past the end of the file is never accepted
find_context_exact(ls, context, start, eof) ==
    IF context = <<>> THEN [found |-> TRUE, start |-> start, end |-> start]
    ELSE FindFrom(ls, context, start, FALSE)

\* mutant: an empty context is searched for like any other
find_context_unguarded(ls, context, start, eof) == FindFrom(ls, context, start, eof)

find_context(ls, context, start, eof) ==
    IF context = <<>> THEN [found |-> TRUE, start |-> start, end |-> start]
    ELSE FindFrom(ls, context, start, eof)

----------------------------------------------------------------------------
(* Data model: PatchAction, Chunk, FileChange *)

ADD == "add"
DELETE == "delete"
UPDATE == "update"

Chunk(del, ins) == [orig_index |-> 0, del_lines |-> del, ins_lines |-> ins]

PatchAction(type, new_file, chunks, move_path) ==
    [type |-> type, new_file |-> new_file, chunks |-> chunks, move_path |-> move_path]

FileChange(type, old_content, new_content, move_path) ==
    [type |-> type, old_content |-> old_content, new_content |-> new_content,
     move_path |-> move_path]

----------------------------------------------------------------------------
(* Commit builder *)

\* mutant: a chunk that is not found is skipped instead of raising
SpliceChunkSkip(ls, work, chunk) ==
    LET f == find_context(ls, chunk.del_lines, 0, FALSE)
    IN  IF ~f.found THEN [ok |-> TRUE, new_lines |-> work]
        ELSE [ok |-> TRUE,
              new_lines |-> SliceAssign(work, f.start, f.end, chunk.ins_lines)]

\* mutant: the chunk is located with the end-of-file allowance
SpliceChunkAtEof(ls, work, chunk) ==
    LET f == find_context(ls, chunk.del_lines, 0, TRUE)
    IN  IF ~f.found THEN [ok |-> FALSE, new_lines |-> work]
        ELSE [ok |-> TRUE,
              new_lines |-> SliceAssign(work, f.start, f.end, chunk.ins_lines)]

\* mutant: the chunk is located in the working copy, as the earlier chunks left it
SpliceChunkInWorkingCopy(ls, work, chunk) ==
    LET f == find_context(work, chunk.del_lines, 0, FALSE)
    IN  IF ~f.found THEN [ok |-> FALSE, new_lines |-> work]
        ELSE [ok |-> TRUE,
              new_lines |-> SliceAssign(work, f.start, f.end, chunk.ins_lines)]

\* one iteration of the chunk loop of _get_updated_file: the chunk is located in
\* the original lines ls and spliced into the working copy new_lines
SpliceChunk(ls, work, chunk) ==
    LET f == find_context(ls, chunk.del_lines, 0, FALSE)
    IN  IF ~f.found THEN [ok |-> FALSE, new_lines |-> work]
        ELSE [ok |-> TRUE,
              new_lines |-> SliceAssign(work, f.start, f.end, chunk.ins_lines)]

\* mutant: the rebuilt lines are joined and no terminator is added
RebuiltTextJoined(txt, ls) == JoinLines(ls)

\* the return value of _get_updated_file
RebuiltText(txt, ls) ==
    IF EndsWithNL(txt) THEN JoinLines(ls) \o <<NL>> ELSE JoinLines(ls)

KeyError(k) == [type |-> "KeyError", what |-> "KeyError", arg |-> k]

----------------------------------------------------------------------------
(* Grammar: the marker words *)

STARS == <<"*** ">>
BEGIN_PATCH == <<"*** ", "Begin Patch">>
END_PATCH == <<"*** ", "End Patch">>
UPDATE_FILE == <<"*** ", "Update File: ">>
ADD_FILE == <<"*** ", "Add File: ">>
DELETE_FILE == <<"*** ", "Delete File: ">>
MOVE_TO == <<"*** ", "Move to: ">>
HUNK == <<"@@ ">>

----------------------------------------------------------------------------
(* Parser helpers *)

\* Parser.is_done(prefixes)
is_done(ls, idx, prefixes) ==
    \/ idx >= Len(ls)
    \/ \E p \in prefixes : StartsWith(ls[idx + 1], p)

\* Parser.startswith(prefix)
startswith(ls, idx, prefix) ==
    /\ idx < Len(ls)
    /\ StartsWith(ls[idx + 1], prefix)

\* Parser.read_str(prefix, return_everything): the text read and the new index,
\* or the exception
read_str(ls, idx, prefix, return_everything) ==
    IF idx >= Len(ls)
    THEN [raised |-> TRUE, text |-> EmptyStr, index |-> idx,
          error |-> DiffError("Index", <<>>)]
    ELSE IF StartsWith(ls[idx + 1], prefix)
         THEN [raised |-> FALSE,
               text |-> IF return_everything THEN ls[idx + 1]
                        ELSE DropPrefix(ls[idx + 1], Len(prefix)),
               index |-> idx + 1,
               error |-> None]
         ELSE [raised |-> FALSE, text |-> EmptyStr, index |-> idx, error |-> None]

NoCur == [path |-> None, move_to |-> None, chunks |-> <<>>, add_lines |-> <<>>]

Raise(idx, acts, err) ==
    [pc |-> "raised", index |-> idx, actions |-> acts, cur |-> NoCur, error |-> err]

Goto(p, idx, acts, c) ==
    [pc |-> p, index |-> idx, actions |-> acts, cur |-> c, error |-> None]

\* the error raised at the end of an iteration that recognised no directive
ParseErrorAt(ls, idx) ==
    IF idx >= Len(ls) THEN [type |-> "IndexError", what |-> "IndexError", arg |-> <<>>]
    ELSE DiffError("Parse Error", ls[idx + 1])

\* mutant: a line that is no directive is skipped
ParseDeleteSkipUnknown(ls, idx, acts, og) ==
    LET r == read_str(ls, idx, DELETE_FILE, FALSE)
    IN  IF r.raised THEN Raise(idx, acts, r.error)
        ELSE IF Truthy(r.text)
        THEN IF HasKey(acts, r.text)
             THEN Raise(r.index, acts, DiffError("Delete File Error: Duplicate Path", r.text))
             ELSE IF ~HasKey(og, r.text)
             THEN Raise(r.index, acts, DiffError("Delete File Error: Missing File", r.text))
             ELSE Goto("parse", r.index,
                       Store(acts, r.text, PatchAction(DELETE, None, <<>>, None)), NoCur)
        ELSE Goto("parse", r.index + 1, acts, NoCur)

\* the Delete File branch of an iteration of Parser.parse
ParseDelete(ls, idx, acts, og) ==
    LET r == read_str(ls, idx, DELETE_FILE, FALSE)
    IN  IF r.raised THEN Raise(idx, acts, r.error)
        ELSE IF Truthy(r.text)
        THEN IF HasKey(acts, r.text)
             THEN Raise(r.index, acts, DiffError("Delete File Error: Duplicate Path", r.text))
             ELSE IF ~HasKey(og, r.text)
             THEN Raise(r.index, acts, DiffError("Delete File Error: Missing File", r.text))
             ELSE Goto("parse", r.index,
                       Store(acts, r.text, PatchAction(DELETE, None, <<>>, None)), NoCur)
        ELSE Raise(r.index, acts, ParseErrorAt(ls, r.index))

\* mutant: Add File does not check for a duplicate path
ParseAddNoDuplicateCheck(ls, idx, acts, og) ==
    LET r == read_str(ls, idx, ADD_FILE, FALSE)
    IN  IF r.raised THEN Raise(idx, acts, r.error)
        ELSE IF Truthy(r.text)
        THEN Goto("add", r.index, acts, [NoCur EXCEPT !.path = r.text])
        ELSE ParseDelete(ls, r.index, acts, og)

\* the Add File branch of an iteration of Parser.parse
ParseAdd(ls, idx, acts, og) ==
    LET r == read_str(ls, idx, ADD_FILE, FALSE)
    IN  IF r.raised THEN Raise(idx, acts, r.error)
        ELSE IF Truthy(r.text)
        THEN IF HasKey(acts, r.text)
             THEN Raise(r.index, acts, DiffError("Add File Error: Duplicate Path", r.text))
             ELSE Goto("add", r.index, acts, [NoCur EXCEPT !.path = r.text])
        ELSE ParseDelete(ls, r.index, acts, og)

\* mutant: Update File does not check that the snapshot holds the path
ParseDirectiveNoMissingCheck(ls, idx, acts, og) ==
    LET r == read_str(ls, idx, UPDATE_FILE, FALSE)
    IN  IF r.raised THEN Raise(idx, acts, r.error)
        ELSE IF Truthy(r.text)
        THEN IF HasKey(acts, r.text)
             THEN Raise(r.index, acts, DiffError("Update File Error: Duplicate Path", r.text))
             ELSE LET m == read_str(ls, r.index, MOVE_TO, FALSE)
                  IN  IF m.raised THEN Raise(r.index, acts, m.error)
                      ELSE Goto("update", m.index, acts,
                                [NoCur EXCEPT !.path = r.text, !.move_to = m.text])
        ELSE ParseAdd(ls, r.index, acts, og)

\* one iteration of the loop of Parser.parse, up to the call of
\* parse_update_file / parse_add_file
ParseDirective(ls, idx, acts, og) ==
    LET r == read_str(ls, idx, UPDATE_FILE, FALSE)
    IN  IF r.raised THEN Raise(idx, acts, r.error)
        ELSE IF Truthy(r.text)
        THEN IF HasKey(acts, r.text)
             THEN Raise(r.index, acts, DiffError("Update File Error: Duplicate Path", r.text))
             ELSE LET m == read_str(ls, r.index, MOVE_TO, FALSE)
                  IN  IF m.raised THEN Raise(r.index, acts, m.error)
                      ELSE IF ~HasKey(og, r.text)
                      THEN Raise(m.index, acts,
                                 DiffError("Update File Error: Missing File", r.text))
                      ELSE Goto("update", m.index, acts,
                                [NoCur EXCEPT !.path = r.text, !.move_to = m.text])
        ELSE ParseAdd(ls, r.index, acts, og)

\* mutant: the marker of a deleted line is kept
ClassifyLineKeepMarker(chunks, line) ==
    LET n == Len(chunks)
        c == chunks[n]
    IN  IF StartsWith(line, <<"-">>)
        THEN [chunks EXCEPT ![n] = [c EXCEPT !.del_lines = Append(@, line)]]
        ELSE IF StartsWith(line, <<"+">>)
        THEN [chunks EXCEPT ![n] = [c EXCEPT !.ins_lines = Append(@, DropPrefix(line, 1))]]
        ELSE IF ~StartsWith(line, HUNK)
        THEN [chunks EXCEPT ![n] = [c EXCEPT !.del_lines = Append(@, line),
                                             !.ins_lines = Append(@, line)]]
        ELSE chunks

\* the classification of one hunk body line into the last chunk
ClassifyLine(chunks, line) ==
    LET n == Len(chunks)
        c == chunks[n]
    IN  IF StartsWith(line, <<"-">>)
        THEN [chunks EXCEPT ![n] = [c EXCEPT !.del_lines = Append(@, DropPrefix(line, 1))]]
        ELSE IF StartsWith(line, <<"+">>)
        THEN [chunks EXCEPT ![n] = [c EXCEPT !.ins_lines = Append(@, DropPrefix(line, 1))]]
        ELSE IF ~StartsWith(line, HUNK)
        THEN [chunks EXCEPT ![n] = [c EXCEPT !.del_lines = Append(@, line),
                                             !.ins_lines = Append(@, line)]]
        ELSE chunks

\* identify_files_needed
RECURSIVE FilesNeeded(_)
FilesNeeded(ls) ==
    IF ls = <<>> THEN <<>>
    ELSE IF StartsWith(ls[1], UPDATE_FILE)
         THEN <<DropPrefix(ls[1], Len(UPDATE_FILE))>> \o FilesNeeded(Tail(ls))
         ELSE IF StartsWith(ls[1], DELETE_FILE)
              THEN <<DropPrefix(ls[1], Len(DELETE_FILE))>> \o FilesNeeded(Tail(ls))
              ELSE FilesNeeded(Tail(ls))

\* mutant: the path of an Add File line is collected as well
RECURSIVE FilesNamed(_)
FilesNamed(ls) ==
    IF ls = <<>> THEN <<>>
    ELSE IF StartsWith(ls[1], UPDATE_FILE)
         THEN <<DropPrefix(ls[1], Len(UPDATE_FILE))>> \o FilesNamed(Tail(ls))
         ELSE IF StartsWith(ls[1], DELETE_FILE)
              THEN <<DropPrefix(ls[1], Len(DELETE_FILE))>> \o FilesNamed(Tail(ls))
              ELSE IF StartsWith(ls[1], ADD_FILE)
                   THEN <<DropPrefix(ls[1], Len(ADD_FILE))>> \o FilesNamed(Tail(ls))
                   ELSE FilesNamed(Tail(ls))

identify_files_named(txt) == FilesNamed(SplitLines(txt))

identify_files_needed(txt) == FilesNeeded(SplitLines(txt))

\* identify_files_added
RECURSIVE FilesAdded(_)
FilesAdded(ls) ==
    IF ls = <<>> THEN <<>>
    ELSE IF StartsWith(ls[1], ADD_FILE)
         THEN <<DropPrefix(ls[1], Len(ADD_FILE))>> \o FilesAdded(Tail(ls))
         ELSE FilesAdded(Tail(ls))

identify_files_added(txt) == FilesAdded(SplitLines(txt))

----------------------------------------------------------------------------
(* The caller's file store and the three injected operations *)

FileExists(fs, p) == p \in DOMAIN fs /\ fs[p] /= Absent

\* write_fn: files[path] = content
WriteFile(fs, p, c) == [q \in DOMAIN fs \cup {p} |-> IF q = p THEN c ELSE fs[q]]

\* remove_fn: del files[path]
RemoveFile(fs, p) == [q \in DOMAIN fs |-> IF q = p THEN Absent ELSE fs[q]]

Call(op, p, c) == [op |-> op, path |-> p, content |-> c]

\* how a call of an injected operation ended: it returned, or it raised
COMPLETED == "completed"
FAILED == "failed"

NoResult == [kind |-> "none"]
Raised(err) == [kind |-> "raise", error |-> err]
Returned(v) == [kind |-> "return", value |-> v]

Done == <<"Done!">>

\* change.new_content or ""
OrEmpty(c) == IF Truthy(c) THEN c ELSE EmptyStr

\* mutant: the original path is removed before the new path is written
ChangeOpsRemoveFirst(path, change) ==
    IF change.type = DELETE THEN <<Call("remove", path, None)>>
    ELSE IF change.type = ADD THEN <<Call("write", path, OrEmpty(change.new_content))>>
    ELSE IF Truthy(change.move_path)
         THEN <<Call("remove", path, None),
                Call("write", change.move_path, OrEmpty(change.new_content))>>
         ELSE <<Call("write", path, OrEmpty(change.new_content))>>

\* mutant: a rename writes the new path and leaves the original file in place
ChangeOpsKeepOriginal(path, change) ==
    IF change.type = DELETE THEN <<Call("remove", path, None)>>
    ELSE IF change.type = ADD THEN <<Call("write", path, OrEmpty(change.new_content))>>
    ELSE IF Truthy(change.move_path)
         THEN <<Call("write", change.move_path, OrEmpty(change.new_content))>>
         ELSE <<Call("write", path, OrEmpty(change.new_content))>>

\* mutant: the original path of an Update is removed whether or not it renames
ChangeOpsRemoveAlways(path, change) ==
    IF change.type = DELETE THEN <<Call("remove", path, None)>>
    ELSE IF change.type = ADD THEN <<Call("write", path, OrEmpty(change.new_content))>>
    ELSE IF Truthy(change.move_path)
         THEN <<Call("write", change.move_path, OrEmpty(change.new_content)),
                Call("remove", path, None)>>
         ELSE <<Call("write", path, OrEmpty(change.new_content)),
                Call("remove", path, None)>>

\* the operations process_patch invokes for one change, in order
ChangeOps(path, change) ==
    IF change.type = DELETE THEN <<Call("remove", path, None)>>
    ELSE IF change.type = ADD THEN <<Call("write", path, OrEmpty(change.new_content))>>
    ELSE IF Truthy(change.move_path)
         THEN <<Call("write", change.move_path, OrEmpty(change.new_content)),
                Call("remove", path, None)>>
         ELSE <<Call("write", path, OrEmpty(change.new_content))>>

----------------------------------------------------------------------------
(* process_patch, up to the call of text_to_patch *)

MalformedHeader == DiffError("Patch must start with *** Begin Patch", <<>>)

\* mutant: process_patch reads the files before any check of the header
PPBeginNoHeaderCheck ==
    /\ pc = "pp_begin"
    /\ paths' = identify_files_needed(text)
    /\ pc' = IF paths' = <<>> THEN "t2p_begin" ELSE "pp_read"
    /\ UNCHANGED <<bi, new_lines, chi, entry, text, files, orig, lines, index, actions, fuzz, cur,
                   commit, ci, oi, ri, calls, outcomes, args, current, doc_path, result>>

\* process_patch: the header check and identify_files_needed
PPBegin ==
    /\ pc = "pp_begin"
    /\ IF ~StartsWith(text, BEGIN_PATCH)
       THEN /\ pc' = "raised"
            /\ result' = Raised(MalformedHeader)
            /\ UNCHANGED paths
       ELSE /\ paths' = identify_files_needed(text)
            /\ pc' = IF paths' = <<>> THEN "t2p_begin" ELSE "pp_read"
            /\ UNCHANGED result
    /\ UNCHANGED <<bi, new_lines, chi, entry, text, files, orig, lines, index, actions, fuzz, cur,
                   commit, ci, oi, ri, calls, outcomes, args, current, doc_path>>

\* process_patch: orig = {p: open_fn(p) for p in paths}, one open_fn call
PPRead ==
    /\ pc = "pp_read"
    /\ ri < Len(paths)
    /\ LET p == paths[ri + 1]
       IN  /\ calls' = Append(calls, Call("read", p, None))
           /\ IF FileExists(files, p)
              THEN /\ orig' = Store(orig, p, files[p])
                   /\ outcomes' = Append(outcomes, COMPLETED)
                   /\ ri' = ri + 1
                   /\ pc' = IF ri' >= Len(paths) THEN "t2p_begin" ELSE "pp_read"
                   /\ UNCHANGED result
              ELSE /\ pc' = "raised"
                   /\ outcomes' = Append(outcomes, FAILED)
                   /\ result' = Raised([type |-> "FileNotFoundError",
                                        what |-> "open_fn", arg |-> p])
                   /\ UNCHANGED <<orig, ri>>
    /\ UNCHANGED <<bi, new_lines, chi, entry, text, files, lines, index, actions, fuzz, cur,
                   commit, ci, oi, paths, args, current, doc_path>>

----------------------------------------------------------------------------
(* text_to_patch and the Parser *)

\* text_to_patch: the header check, splitlines, Parser(...), and the skip of the
\* begin line in Parser.parse
T2PBegin ==
    /\ pc = "t2p_begin"
    /\ IF ~StartsWith(text, BEGIN_PATCH)
       THEN /\ pc' = "raised"
            /\ result' = Raised(MalformedHeader)
            /\ UNCHANGED <<lines, index, actions, fuzz>>
       ELSE /\ lines' = SplitLines(text)
            /\ index' = IF startswith(lines', 0, BEGIN_PATCH) THEN 1 ELSE 0
            /\ actions' = <<>>
            /\ fuzz' = 0
            /\ pc' = "parse"
            /\ UNCHANGED result
    /\ UNCHANGED <<bi, new_lines, chi, entry, text, files, orig, cur, commit, ci, oi, paths, ri, calls, outcomes, args, current, doc_path>>

\* Parser.parse: one iteration of the while loop, or its end
ParseLoop ==
    /\ pc = "parse"
    /\ IF is_done(lines, index, {END_PATCH})
       THEN /\ IF entry = "text_to_patch"
               THEN /\ pc' = "returned"
                    /\ result' = Returned([patch |-> actions, fuzz |-> fuzz])
               ELSE /\ pc' = "p2c"
                    /\ UNCHANGED result
            /\ UNCHANGED <<index, actions, cur>>
       ELSE LET n == ParseDirective(lines, index, actions, orig)
            IN  /\ pc' = n.pc
                /\ index' = n.index
                /\ actions' = n.actions
                /\ cur' = n.cur
                /\ result' = IF n.pc = "raised" THEN Raised(n.error) ELSE result
    /\ UNCHANGED <<bi, new_lines, chi, entry, text, files, orig, lines, fuzz, commit, ci, oi, paths,
                   ri, calls, outcomes, args, current, doc_path>>

\* Parser.parse_update_file: the test of the outer while loop; at its end the
\* action is returned to Parser.parse and registered
UpdateWhile ==
    /\ pc = "update"
    /\ IF is_done(lines, index, {STARS})
       THEN /\ actions' = Store(actions, cur.path,
                                PatchAction(UPDATE, None, cur.chunks,
                                            IF Truthy(cur.move_to) THEN cur.move_to
                                            ELSE None))
            /\ cur' = NoCur
            /\ pc' = "parse"
       ELSE /\ pc' = "update_if"
            /\ UNCHANGED <<actions, cur>>
    /\ UNCHANGED <<bi, new_lines, chi, entry, text, files, orig, lines, index, fuzz, commit, ci, oi,
                   paths, ri, calls, outcomes, args, current, doc_path, result>>

\* Parser.parse_update_file: the body of the outer while loop
UpdateIf ==
    /\ pc = "update_if"
    /\ IF startswith(lines, index, HUNK)
       THEN /\ index' = index + 1
            /\ cur' = [cur EXCEPT !.chunks = Append(@, Chunk(<<>>, <<>>))]
            /\ pc' = "chunk"
       ELSE /\ pc' = "update"
            /\ UNCHANGED <<index, cur>>
    /\ UNCHANGED <<bi, new_lines, chi, entry, text, files, orig, lines, actions, fuzz, commit, ci, oi,
                   paths, ri, calls, outcomes, args, current, doc_path, result>>

\* Parser.parse_update_file: one iteration of the inner while loop
ChunkLoop ==
    /\ pc = "chunk"
    /\ IF is_done(lines, index, {HUNK, STARS})
       THEN /\ pc' = "update"
            /\ UNCHANGED <<index, cur>>
       ELSE LET r == read_str(lines, index, EmptyStr, TRUE)
            IN  /\ index' = r.index
                /\ IF ~Truthy(r.text)
                   THEN /\ pc' = "update"
                        /\ UNCHANGED cur
                   ELSE /\ cur' = [cur EXCEPT !.chunks = ClassifyLine(@, r.text)]
                        /\ pc' = "chunk"
    /\ UNCHANGED <<bi, new_lines, chi, entry, text, files, orig, lines, actions, fuzz, commit, ci, oi,
                   paths, ri, calls, outcomes, args, current, doc_path, result>>

\* Parser.parse_add_file: one iteration of the while loop, or its end, where the
\* action is returned to Parser.parse and registered
AddLoop ==
    /\ pc = "add"
    /\ IF is_done(lines, index, {STARS})
       THEN /\ actions' = Store(actions, cur.path,
                                PatchAction(ADD, JoinLines(cur.add_lines), <<>>, None))
            /\ cur' = NoCur
            /\ pc' = "parse"
            /\ UNCHANGED index
       ELSE LET r == read_str(lines, index, EmptyStr, FALSE)
            IN  /\ index' = r.index
                /\ cur' = IF Truthy(r.text)
                          THEN [cur EXCEPT !.add_lines = Append(@, r.text)]
                          ELSE cur
                /\ pc' = "add"
                /\ UNCHANGED actions
    /\ UNCHANGED <<bi, new_lines, chi, entry, text, files, orig, lines, fuzz, commit, ci, oi, paths,
                   ri, calls, outcomes, args, current, doc_path, result>>

----------------------------------------------------------------------------
(* patch_to_commit and the applicator *)

\* patch_to_commit: one iteration of the loop over patch.actions, or its end,
\* where the Commit is returned to process_patch or to the caller
BuildLoop ==
    /\ pc = "p2c"
    /\ IF bi >= Len(actions)
       THEN /\ IF entry = "patch_to_commit"
               THEN /\ pc' = "returned"
                    /\ result' = Returned(commit)
               ELSE /\ pc' = "apply"
                    /\ UNCHANGED result
            /\ UNCHANGED <<commit, bi, new_lines, chi>>
       ELSE LET path == actions[bi + 1].key
                action == actions[bi + 1].val
            IN  IF action.type = ADD
                THEN /\ commit' = Store(commit, path,
                                        FileChange(ADD, None, action.new_file, None))
                     /\ bi' = bi + 1
                     /\ UNCHANGED <<pc, result, new_lines, chi>>
                ELSE IF ~HasKey(orig, path)
                THEN /\ pc' = "raised"
                     /\ result' = Raised(KeyError(path))
                     /\ UNCHANGED <<commit, bi, new_lines, chi>>
                ELSE IF action.type = DELETE
                THEN /\ commit' = Store(commit, path,
                                        FileChange(DELETE, Lookup(orig, path), None, None))
                     /\ bi' = bi + 1
                     /\ UNCHANGED <<pc, result, new_lines, chi>>
                ELSE /\ new_lines' = SplitLines(Lookup(orig, path))
                     /\ chi' = 0
                     /\ pc' = "guf"
                     /\ UNCHANGED <<commit, bi, result>>
    /\ UNCHANGED <<entry, text, files, orig, lines, index, actions, fuzz, cur,
                   ci, oi, paths, ri, calls, outcomes, args, current, doc_path>>

\* _get_updated_file: one iteration of the loop over action.chunks, or its end,
\* where the new content is returned to patch_to_commit and the FileChange stored
GufLoop ==
    /\ pc = "guf"
    /\ LET path == actions[bi + 1].key
           action == actions[bi + 1].val
           txt == Lookup(orig, path)
       IN  IF chi >= Len(action.chunks)
           THEN /\ commit' = Store(commit, path,
                                   FileChange(UPDATE, txt, RebuiltText(txt, new_lines),
                                              action.move_path))
                /\ bi' = bi + 1
                /\ pc' = "p2c"
                /\ new_lines' = <<>>
                /\ chi' = 0
                /\ UNCHANGED result
           ELSE LET r == SpliceChunk(SplitLines(txt), new_lines, action.chunks[chi + 1])
                IN  IF ~r.ok
                    THEN /\ pc' = "raised"
                         /\ result' = Raised(DiffError("Failed to apply chunk in", path))
                         /\ UNCHANGED <<commit, bi, new_lines, chi>>
                    ELSE /\ new_lines' = r.new_lines
                         /\ chi' = chi + 1
                         /\ UNCHANGED <<pc, result, commit, bi>>
    /\ UNCHANGED <<entry, text, files, orig, lines, index, actions, fuzz, cur,
                   ci, oi, paths, ri, calls, outcomes, args, current, doc_path>>

\* mutant: the changes of the Commit are taken from the last to the first
NextOpFromLast ==
    LET ops == ChangeOps(commit[Len(commit) - ci].key, commit[Len(commit) - ci].val)
    IN  ops[Min(oi + 1, Len(ops))]

\* the operation process_patch invokes next
NextOp == ChangeOps(commit[ci + 1].key, commit[ci + 1].val)[oi + 1]

\* mutant: a failure of write_fn / remove_fn is swallowed and the loop goes on
ApplyOpSwallow ==
    /\ pc = "apply"
    /\ ci < Len(commit)
    /\ LET op == NextOp
           n == Len(ChangeOps(commit[ci + 1].key, commit[ci + 1].val))
       IN  /\ calls' = Append(calls, op)
           /\ \/ /\ op.op = "write" \/ FileExists(files, op.path)
                 /\ files' = IF op.op = "write"
                             THEN WriteFile(files, op.path, op.content)
                             ELSE RemoveFile(files, op.path)
                 /\ outcomes' = Append(outcomes, COMPLETED)
              \/ /\ outcomes' = Append(outcomes, FAILED)
                 /\ UNCHANGED files
           /\ IF oi + 1 >= n
              THEN ci' = ci + 1 /\ oi' = 0
              ELSE oi' = oi + 1 /\ UNCHANGED ci
    /\ UNCHANGED <<pc, result, bi, new_lines, chi, entry, text, orig, lines, index, actions, fuzz,
                   cur, commit, paths, ri, args, current, doc_path>>

\* process_patch: the next injected write_fn / remove_fn call, which the caller's
\* operation completes or fails
ApplyOp ==
    /\ pc = "apply"
    /\ ci < Len(commit)
    /\ LET op == NextOp
           n == Len(ChangeOps(commit[ci + 1].key, commit[ci + 1].val))
       IN  /\ calls' = Append(calls, op)
           /\ \/ /\ op.op = "write" \/ FileExists(files, op.path)
                 /\ files' = IF op.op = "write"
                             THEN WriteFile(files, op.path, op.content)
                             ELSE RemoveFile(files, op.path)
                 /\ IF oi + 1 >= n
                    THEN ci' = ci + 1 /\ oi' = 0
                    ELSE oi' = oi + 1 /\ UNCHANGED ci
                 /\ outcomes' = Append(outcomes, COMPLETED)
                 /\ UNCHANGED <<pc, result>>
              \/ /\ pc' = "raised"
                 /\ outcomes' = Append(outcomes, FAILED)
                 /\ result' = Raised([type |-> "OperationError", what |-> op.op,
                                      arg |-> op.path])
                 /\ UNCHANGED <<files, ci, oi>>
    /\ UNCHANGED <<bi, new_lines, chi, entry, text, orig, lines, index, actions, fuzz, cur, commit,
                   paths, ri, args, current, doc_path>>

\* process_patch: return "Done!"
Return ==
    /\ pc = "apply"
    /\ ci >= Len(commit)
    /\ pc' = "returned"
    /\ result' = Returned(Done)
    /\ UNCHANGED <<bi, new_lines, chi, entry, text, files, orig, lines, index, actions, fuzz, cur,
                   commit, ci, oi, paths, ri, calls, outcomes, args, current, doc_path>>

----------------------------------------------------------------------------
(* Inputs *)

Paths == {<<"a">>, <<"b">>}
PathA == <<"a">>
PathB == <<"b">>

\* the contents the files have when they exist
FileA == <<"a", NL, "b", NL>>
FileB == <<"b">>

Stores ==
    {[p \in Paths |-> IF p \in S THEN (IF p = PathA THEN FileA ELSE FileB) ELSE Absent] :
        S \in SUBSET Paths}

Snapshots ==
    { <<>>,
      <<[key |-> PathA, val |-> FileA]>>,
      <<[key |-> PathB, val |-> FileB]>>,
      <<[key |-> PathA, val |-> FileA], [key |-> PathB, val |-> FileB]>> }

\* the hunks of an Update block: none; one that replaces the line a by b; one,
\* with text on its header line, whose context line b is followed by the deletion
\* of a line a
HunkBodies ==
    { <<>>,
      <<HUNK, <<"-", "a">>, <<"+", "b">>>>,
      <<HUNK \o <<"h">>, <<"b">>, <<"-", "a">>>> }

UpdateBlocks ==
    { <<UPDATE_FILE \o p>> \o mv \o h :
        p \in Paths,
        mv \in {<<>>} \cup {<<MOVE_TO \o q>> : q \in Paths},
        h \in HunkBodies }

\* the body of an Add block: one line, or one line and a blank line
AddBodies == { <<<<"a">>>>, <<<<"a">>, EmptyStr>> }

AddBlocks == { <<ADD_FILE \o p>> \o body : p \in Paths, body \in AddBodies }

DeleteBlocks == { <<DELETE_FILE \o p>> : p \in Paths }

OtherBlocks == { <<<<"z">>>> }

Blocks == UpdateBlocks \cup AddBlocks \cup DeleteBlocks \cup OtherBlocks

RECURSIVE BlockSeqs(_)
BlockSeqs(n) ==
    IF n = 0 THEN {<<>>}
    ELSE {<<>>} \cup {b \o s : b \in Blocks, s \in BlockSeqs(n - 1)}

PatchLineSeqs ==
    { h \o s \o t : h \in {<<>>, <<BEGIN_PATCH>>},
                    s \in BlockSeqs(MaxDirectives),
                    t \in {<<>>, <<END_PATCH>>} }

PatchTexts == { JoinLines(ls) : ls \in PatchLineSeqs }

\* doc_path = None
NoDocPath == [none |-> TRUE]

InitCommon ==
    /\ lines = <<>>
    /\ index = 0
    /\ fuzz = 0
    /\ cur = NoCur
    /\ commit = <<>>
    /\ bi = 0
    /\ new_lines = <<>>
    /\ chi = 0
    /\ ci = 0
    /\ oi = 0
    /\ paths = <<>>
    /\ ri = 0
    /\ calls = <<>>
    /\ outcomes = <<>>
    /\ result = NoResult
    /\ current = 0
    /\ doc_path = NoDocPath

\* a call of process_patch(text, open_fn, write_fn, remove_fn)
Init ==
    /\ entry = "process_patch"
    /\ pc = "pp_begin"
    /\ text \in PatchTexts
    /\ files \in Stores
    /\ orig = <<>>
    /\ actions = <<>>
    /\ args = <<>>
    /\ InitCommon

Next ==
    \/ PPBegin
    \/ PPRead
    \/ T2PBegin
    \/ ParseLoop
    \/ UpdateWhile
    \/ UpdateIf
    \/ ChunkLoop
    \/ AddLoop
    \/ BuildLoop
    \/ GufLoop
    \/ ApplyOp
    \/ Return

Spec == Init /\ [][Next]_vars

\* patches of one directive whose End Patch line is followed by nothing or by
\* the lines of a further directive
TrailedTexts ==
    { JoinLines(<<BEGIN_PATCH>> \o b \o <<END_PATCH>> \o t) :
        b \in Blocks, t \in {<<>>} \cup Blocks }

\* a call of process_patch on a patch with lines after its End Patch line
InitTrailed ==
    /\ entry = "process_patch"
    /\ pc = "pp_begin"
    /\ text \in TrailedTexts
    /\ files \in Stores
    /\ orig = <<>>
    /\ actions = <<>>
    /\ args = <<>>
    /\ InitCommon

SpecTrailed == InitTrailed /\ [][Next]_vars

\* a call of text_to_patch(text, orig)
InitParse ==
    /\ entry = "text_to_patch"
    /\ pc = "t2p_begin"
    /\ text \in PatchTexts
    /\ files \in {[p \in Paths |-> Absent]}
    /\ orig \in Snapshots
    /\ actions = <<>>
    /\ args = <<>>
    /\ InitCommon

NextParse ==
    \/ T2PBegin
    \/ ParseLoop
    \/ UpdateWhile
    \/ UpdateIf
    \/ ChunkLoop
    \/ AddLoop

SpecParse == InitParse /\ [][NextParse]_vars

\* the same call, with the interpreter always taking the next step of the code
SpecParseLive == SpecParse /\ WF_vars(NextParse)

\* the lines the body of an Update section is drawn from: a hunk header, a
\* deletion, an insertion, a context line and a blank line
HunkLineSet == {HUNK, <<"-", "a">>, <<"+", "b">>, <<"b">>, EmptyStr}

MaxHunkLines == 3

RECURSIVE HunkLineSeqs(_)
HunkLineSeqs(n) ==
    IF n = 0 THEN {<<>>}
    ELSE {<<>>} \cup {<<l>> \o s : l \in HunkLineSet, s \in HunkLineSeqs(n - 1)}

\* patches of one Update section
HunkTexts ==
    { JoinLines(<<BEGIN_PATCH, UPDATE_FILE \o PathA>> \o b \o t) :
        b \in HunkLineSeqs(MaxHunkLines), t \in {<<>>, <<END_PATCH>>} }

\* a call of text_to_patch(text, orig) on a patch of one Update section
InitHunk ==
    /\ entry = "text_to_patch"
    /\ pc = "t2p_begin"
    /\ text \in HunkTexts
    /\ files \in {[p \in Paths |-> Absent]}
    /\ orig = <<[key |-> PathA, val |-> FileA]>>
    /\ actions = <<>>
    /\ args = <<>>
    /\ InitCommon

NextHunk ==
    \/ T2PBegin
    \/ ParseLoop
    \/ UpdateWhile
    \/ UpdateIf
    \/ ChunkLoop

SpecHunk == InitHunk /\ [][NextHunk]_vars

\* a call of either entry point that takes the patch text
SpecEntry == (Init \/ InitParse) /\ [][Next]_vars

\* the lines a file or a hunk is made of
LineSet == {<<"a">>, <<"b">>}

RECURSIVE LineSeqs(_)
LineSeqs(n) ==
    IF n = 0 THEN {<<>>}
    ELSE {<<>>} \cup {<<l>> \o s : l \in LineSet, s \in LineSeqs(n - 1)}

FileTexts ==
    { JoinLines(ls) \o t : ls \in LineSeqs(MaxFileLines), t \in {<<>>, <<NL>>} }

ChunkSet ==
    { Chunk(del, ins) : del \in LineSeqs(MaxChunkLines), ins \in LineSeqs(MaxChunkLines) }

RECURSIVE ChunkSeqs(_)
ChunkSeqs(n) ==
    IF n = 0 THEN {<<>>}
    ELSE {<<>>} \cup {<<c>> \o s : c \in ChunkSet, s \in ChunkSeqs(n - 1)}

\* a call of patch_to_commit(patch, orig) with a Patch of one Update action; the
\* chunks of the action are drawn when the loop of _get_updated_file reaches them
InitCommit ==
    /\ entry = "patch_to_commit"
    /\ pc = "p2c"
    /\ text = <<>>
    /\ files \in {[p \in Paths |-> Absent]}
    /\ \E t \in FileTexts : orig = <<[key |-> PathA, val |-> t]>>
    /\ actions = <<[key |-> PathA, val |-> PatchAction(UPDATE, None, <<>>, None)]>>
    /\ args = <<>>
    /\ InitCommon

\* the caller's Patch: the next chunk of the action
DrawChunk ==
    /\ entry = "patch_to_commit"
    /\ pc = "guf"
    /\ chi >= Len(actions[bi + 1].val.chunks)
    /\ Len(actions[bi + 1].val.chunks) < MaxChunks
    /\ \E c \in ChunkSet :
          actions' = [actions EXCEPT ![bi + 1].val.chunks = Append(@, c)]
    /\ UNCHANGED <<entry, pc, text, files, orig, lines, index, fuzz, cur, commit,
                   bi, new_lines, chi, ci, oi, paths, ri, calls, outcomes, args, current, doc_path, result>>

NextCommit ==
    \/ BuildLoop
    \/ GufLoop
    \/ DrawChunk

SpecCommit == InitCommit /\ [][NextCommit]_vars

ContextNotFound == DiffError("Context not found", <<>>)

\* a direct call of find_context(lines, context, start, eof)
InitFind ==
    /\ entry = "find_context"
    /\ pc = "fc_call"
    /\ text = <<>>
    /\ files \in {[p \in Paths |-> Absent]}
    /\ orig = <<>>
    /\ actions = <<>>
    /\ args \in [lines : LineSeqs(MaxFileLines), context : LineSeqs(MaxContextLines),
                 start : 0..(MaxFileLines + 1), eof : BOOLEAN]
    /\ InitCommon

\* find_context: the call returns (start, end) or raises
FindContext ==
    /\ pc = "fc_call"
    /\ LET f == find_context(args.lines, args.context, args.start, args.eof)
       IN  IF f.found
           THEN /\ pc' = "returned"
                /\ result' = Returned(<<f.start, f.end>>)
           ELSE /\ pc' = "raised"
                /\ result' = Raised(ContextNotFound)
    /\ UNCHANGED <<entry, text, files, orig, lines, index, actions, fuzz, cur, commit,
                   bi, new_lines, chi, ci, oi, paths, ri, calls, outcomes, args, current, doc_path>>

NextFind == FindContext

SpecFind == InitFind /\ [][NextFind]_vars

\* the loop of process_patch over the operations ops on the in-memory store fs,
\* every write_fn completing and remove_fn failing for a path the store lacks:
\* the store at the end and whether the loop ran to its end
RECURSIVE ApplyOpsTo(_, _)
ApplyOpsTo(fs, ops) ==
    IF ops = <<>> THEN [files |-> fs, done |-> TRUE]
    ELSE IF ops[1].op = "write"
         THEN ApplyOpsTo(WriteFile(fs, ops[1].path, ops[1].content), Tail(ops))
         ELSE IF FileExists(fs, ops[1].path)
              THEN ApplyOpsTo(RemoveFile(fs, ops[1].path), Tail(ops))
              ELSE [files |-> fs, done |-> FALSE]

\* the operations of the changes of c taken in the order perm
RECURSIVE OpsInOrder(_, _)
OpsInOrder(c, perm) ==
    IF perm = <<>> THEN <<>>
    ELSE ChangeOps(c[perm[1]].key, c[perm[1]].val) \o OpsInOrder(c, Tail(perm))

\* a direct call of identify_files_needed(text) or identify_files_added(text)
InitIdentify ==
    /\ entry \in {"identify_files_needed", "identify_files_added"}
    /\ pc = "id_call"
    /\ text \in PatchTexts
    /\ files = [p \in Paths |-> IF p = PathA THEN FileA ELSE FileB]
    /\ orig = <<>>
    /\ actions = <<>>
    /\ args = <<>>
    /\ InitCommon

IdentifyNeeded ==
    /\ entry = "identify_files_needed"
    /\ pc = "id_call"
    /\ pc' = "returned"
    /\ result' = Returned(identify_files_needed(text))
    /\ UNCHANGED <<entry, text, files, orig, lines, index, actions, fuzz, cur, commit,
                   bi, new_lines, chi, ci, oi, paths, ri, calls, outcomes, args, current, doc_path>>

IdentifyAdded ==
    /\ entry = "identify_files_added"
    /\ pc = "id_call"
    /\ pc' = "returned"
    /\ result' = Returned(identify_files_added(text))
    /\ UNCHANGED <<entry, text, files, orig, lines, index, actions, fuzz, cur, commit,
                   bi, new_lines, chi, ci, oi, paths, ri, calls, outcomes, args, current, doc_path>>

NextIdentify ==
    \/ IdentifyNeeded
    \/ IdentifyAdded

SpecIdentify == InitIdentify /\ [][NextIdentify]_vars

----------------------------------------------------------------------------
(* approvals.py: ApprovalMode, ApplyPatchCommand, CommandReview, ApprovalPolicy *)

SUGGEST == "SUGGEST"
AUTO_EDIT == "AUTO_EDIT"
FULL_AUTO == "FULL_AUTO"
ApprovalMode == {SUGGEST, AUTO_EDIT, FULL_AUTO}

ApplyPatchCommand(filename, patch) == [filename |-> filename, patch |-> patch]

CommandReview(approved, custom_message) ==
    [approved |-> approved, custom_message |-> custom_message]

\* ApprovalPolicy.should_auto_approve_edit
should_auto_approve_edit(mode) == mode \in {AUTO_EDIT, FULL_AUTO}

\* mutant: commands are auto-approved in AUTO_EDIT as well
should_auto_approve_command_or_edit(mode) == mode \in {AUTO_EDIT, FULL_AUTO}

\* ApprovalPolicy.should_auto_approve_command
should_auto_approve_command(mode) == mode = FULL_AUTO

\* the value None of an Optional[ApplyPatchCommand]
NoPatch == [none |-> TRUE]

\* bool(patch) of an Optional[ApplyPatchCommand]: an instance of the dataclass
\* is truthy whatever its fields hold
PatchTruthy(patch) == patch /= NoPatch

\* ApprovalPolicy.get_command_approval
get_command_approval(mode, command, patch) ==
    IF PatchTruthy(patch) /\ should_auto_approve_edit(mode)
    THEN CommandReview(TRUE, None)
    ELSE IF ~PatchTruthy(patch) /\ should_auto_approve_command(mode)
    THEN CommandReview(TRUE, None)
    ELSE CommandReview(FALSE, None)

Words == {"echo", "test", "apply_patch"}

RECURSIVE Commands(_)
Commands(n) ==
    IF n = 0 THEN {<<>>}
    ELSE {<<>>} \cup {<<w>> \o c : w \in Words, c \in Commands(n - 1)}

PatchCommands ==
    {ApplyPatchCommand(f, t) : f \in {"test.py", ""}, t \in {"test patch", ""}}

\* a call of ApprovalPolicy(mode).get_command_approval(command, patch)
InitApproval ==
    /\ entry = "get_command_approval"
    /\ pc = "gca_call"
    /\ text = <<>>
    /\ files \in {[p \in Paths |-> Absent]}
    /\ orig = <<>>
    /\ actions = <<>>
    /\ args \in [mode : ApprovalMode, command : Commands(MaxCommandWords),
                 patch : {NoPatch} \cup PatchCommands]
    /\ InitCommon

GetCommandApproval ==
    /\ pc = "gca_call"
    /\ pc' = "returned"
    /\ result' = Returned(get_command_approval(args.mode, args.command, args.patch))
    /\ UNCHANGED <<entry, text, files, orig, lines, index, actions, fuzz, cur, commit,
                   bi, new_lines, chi, ci, oi, paths, ri, calls, outcomes, args, current, doc_path>>

NextApproval == GetCommandApproval

SpecApproval == InitApproval /\ [][NextApproval]_vars

----------------------------------------------------------------------------
(* config.load_project_doc *)

\* the depth of the deepest directory of the tree (the root is at depth 0)
MaxDepth == 2

Depths == 0..MaxDepth

\* the names tried in a directory, in the order of doc_names
DocNames == <<"codex.md", ".codex.md", "CODEX.md">>

GIT == ".git"

\* what a directory may contain
EntrySets ==
    { {}, {"codex.md"}, {".codex.md", "CODEX.md"}, {GIT}, {"CODEX.md", GIT} }

\* a directory chain from the root: the entries of the directory at each depth
Trees == [Depths -> EntrySets]

DirName(d) == IF d = 0 THEN "/" ELSE IF d = 1 THEN "/p" ELSE IF d = 2 THEN "/p/q" ELSE "/p/q/r"

\* current.parent: the root is its own parent
Parent(d) == IF d = 0 THEN 0 ELSE d - 1

\* current / name
DocPath(d, name) == [dir |-> d, name |-> name]

\* the text of the file at a path: two characters that tell the files apart
ContentOf(path) == <<DirName(path.dir), path.name>>

\* (current / name).is_file()
IsFile(tree, path) == path.dir \in DOMAIN tree /\ path.name \in tree[path.dir]

\* the default of max_size
DefaultMaxSize == 32 * 1024

\* content[:max_size] when the content is larger than max_size
Truncated(content, max_size) ==
    IF Len(content) > max_size THEN SubSeq(content, 1, max_size) ELSE content

\* the first of doc_names that is a file of the directory d (0 if none is)
FirstDocName(tree, d) ==
    IF \E i \in 1..Len(DocNames) : DocNames[i] \in tree[d]
    THEN CHOOSE i \in 1..Len(DocNames) :
             /\ DocNames[i] \in tree[d]
             /\ \A j \in 1..(i - 1) : DocNames[j] \notin tree[d]
    ELSE 0

\* the explicit paths a caller passes: none, the empty string, a file that
\* exists in every tree that has it, and a file that is in no tree
ExplicitPaths ==
    {NoDocPath, [dir |-> 0, name |-> ""]}
        \cup {DocPath(d, "codex.md") : d \in Depths}
        \cup {DocPath(0, "notes.md")}

ExplicitGiven(e) == e /= NoDocPath /\ e.name /= ""

\* a call of load_project_doc(cwd, explicit_path, max_size)
InitDoc ==
    /\ entry = "load_project_doc"
    /\ pc = "lpd_begin"
    /\ text = <<>>
    /\ files \in {[p \in Paths |-> Absent]}
    /\ orig = <<>>
    /\ actions = <<>>
    /\ args \in [tree : Trees, cwd : Depths, explicit_path : ExplicitPaths,
                 max_size : {1, DefaultMaxSize}]
    /\ InitCommon

\* load_project_doc: the choice between the explicit path and the walk
LpdBegin ==
    /\ pc = "lpd_begin"
    /\ IF ExplicitGiven(args.explicit_path)
       THEN /\ doc_path' = args.explicit_path
            /\ pc' = "lpd_check"
            /\ UNCHANGED current
       ELSE /\ current' = args.cwd
            /\ pc' = "lpd_while"
            /\ UNCHANGED doc_path
    /\ UNCHANGED <<entry, text, files, orig, lines, index, actions, fuzz, cur, commit,
                   bi, new_lines, chi, ci, oi, paths, ri, calls, outcomes, args, result>>

\* load_project_doc: the test of the while loop, current != current.parent
LpdWhile ==
    /\ pc = "lpd_while"
    /\ pc' = IF current /= Parent(current) THEN "lpd_for" ELSE "lpd_check"
    /\ UNCHANGED <<entry, text, files, orig, lines, index, actions, fuzz, cur, commit,
                   bi, new_lines, chi, ci, oi, paths, ri, calls, outcomes, args, current, doc_path, result>>

\* load_project_doc: the body of the while loop: the for loop over doc_names,
\* whose break leaves the for loop only, and its else clause
LpdFor ==
    /\ pc = "lpd_for"
    /\ LET i == FirstDocName(args.tree, current)
       IN  IF i > 0
           THEN /\ doc_path' = DocPath(current, DocNames[i])
                /\ pc' = "lpd_while"
                /\ UNCHANGED current
           ELSE IF GIT \in args.tree[current]
           THEN /\ pc' = "lpd_check"
                /\ UNCHANGED <<current, doc_path>>
           ELSE /\ current' = Parent(current)
                /\ pc' = "lpd_while"
                /\ UNCHANGED doc_path
    /\ UNCHANGED <<entry, text, files, orig, lines, index, actions, fuzz, cur, commit,
                   bi, new_lines, chi, ci, oi, paths, ri, calls, outcomes, args, result>>

\* load_project_doc: if not doc_path: return None
LpdCheck ==
    /\ pc = "lpd_check"
    /\ IF doc_path = NoDocPath
       THEN pc' = "returned" /\ result' = Returned(None)
       ELSE pc' = "lpd_read" /\ UNCHANGED result
    /\ UNCHANGED <<entry, text, files, orig, lines, index, actions, fuzz, cur, commit,
                   bi, new_lines, chi, ci, oi, paths, ri, calls, outcomes, args, current, doc_path>>

\* load_project_doc: the try block: read_text, the cut to max_size, and the
\* handler that returns None when the file cannot be read
LpdRead ==
    /\ pc = "lpd_read"
    /\ pc' = "returned"
    /\ result' = IF IsFile(args.tree, doc_path)
                 THEN Returned(Truncated(ContentOf(doc_path), args.max_size))
                 ELSE Returned(None)
    /\ UNCHANGED <<entry, text, files, orig, lines, index, actions, fuzz, cur, commit,
                   bi, new_lines, chi, ci, oi, paths, ri, calls, outcomes, args, current, doc_path>>

NextDoc ==
    \/ LpdBegin
    \/ LpdWhile
    \/ LpdFor
    \/ LpdCheck
    \/ LpdRead

SpecDoc == InitDoc /\ [][NextDoc]_vars

----------------------------------------------------------------------------
(* Vocabulary of the properties *)

\* ctx is the slice of ls that starts at the 0-based index s
OccursAt(ls, ctx, s) ==
    /\ s + Len(ctx) <= Len(ls)
    /\ SubSeq(ls, s + 1, s + Len(ctx)) = ctx

Occurs(ls, ctx) == \E s \in 0..Len(ls) : OccursAt(ls, ctx, s)

FirstAt(ls, ctx) ==
    CHOOSE s \in 0..Len(ls) :
        /\ OccursAt(ls, ctx, s)
        /\ \A t \in 0..(s - 1) : ~OccursAt(ls, ctx, t)

\* ls with the slice [s, s + n) replaced by ins
Spliced(ls, s, n, ins) == SubSeq(ls, 1, s) \o ins \o SubSeq(ls, s + n + 1, Len(ls))

\* the text of the lines ls, ending with a terminator exactly if txt does
TextOf(ls, txt) == IF EndsWithNL(txt) THEN JoinLines(ls) \o <<NL>> ELSE JoinLines(ls)

Called(ops) == {i \in 1..Len(calls) : calls[i].op \in ops}

\* the call of patch_to_commit on one Update action has ended
CommitCallEnded == entry = "patch_to_commit" /\ pc \in {"returned", "raised"}

TheChunks == actions[1].val.chunks
TheOriginal == Lookup(orig, actions[1].key)

\* C1: an Update with exactly one chunk whose non-empty del_lines occur in the
\* original gives the original lines with the first occurrence of del_lines
\* replaced by ins_lines (terminator at the end kept as in the original), and
\* old_content is the snapshot content.
C1_SingleChunkSplice ==
    (/\ CommitCallEnded
     /\ Len(TheChunks) = 1
     /\ TheChunks[1].del_lines /= <<>>
     /\ Occurs(SplitLines(TheOriginal), TheChunks[1].del_lines))
    => LET ls == SplitLines(TheOriginal)
           del == TheChunks[1].del_lines
           s == FirstAt(ls, del)
       IN  /\ pc = "returned"
           /\ result = Returned(commit)
           /\ Len(commit) = 1
           /\ commit[1].key = actions[1].key
           /\ commit[1].val.type = UPDATE
           /\ commit[1].val.new_content =
                  TextOf(Spliced(ls, s, Len(del), TheChunks[1].ins_lines), TheOriginal)
           /\ commit[1].val.old_content = TheOriginal

C1_Witness ==
    /\ CommitCallEnded
    /\ pc = "returned"
    /\ Len(TheChunks) = 1
    /\ Len(TheChunks[1].del_lines) = 1
    /\ Len(TheChunks[1].ins_lines) = 0
    /\ FirstAt(SplitLines(TheOriginal), TheChunks[1].del_lines) = 1
    /\ OccursAt(SplitLines(TheOriginal), TheChunks[1].del_lines, 1)

\* sorted right to left, every located slice of orig_ls is replaced in work
RECURSIVE ReplaceSlices(_, _, _)
ReplaceSlices(work, orig_ls, cs) ==
    IF cs = {} THEN work
    ELSE LET c == CHOOSE x \in cs :
                    \A y \in cs : FirstAt(orig_ls, y.del_lines) <= FirstAt(orig_ls, x.del_lines)
         IN  ReplaceSlices(Spliced(work, FirstAt(orig_ls, c.del_lines),
                                   Len(c.del_lines), c.ins_lines),
                           orig_ls, cs \ {c})

\* the chunks are located at pairwise non-overlapping slices of ls
NonOverlapping(ls, chunks) ==
    /\ \A i \in 1..Len(chunks) :
          chunks[i].del_lines /= <<>> /\ Occurs(ls, chunks[i].del_lines)
    /\ \A i, j \in 1..Len(chunks) :
          i < j =>
            \/ FirstAt(ls, chunks[i].del_lines) + Len(chunks[i].del_lines)
                  <= FirstAt(ls, chunks[j].del_lines)
            \/ FirstAt(ls, chunks[j].del_lines) + Len(chunks[j].del_lines)
                  <= FirstAt(ls, chunks[i].del_lines)

\* C2: an Update with two or more chunks located at pairwise non-overlapping
\* slices of the original gives the original with every located slice replaced
\* by its chunk's ins_lines and every other line kept, in any declaration order
\* and whether or not a chunk changes the number of lines.
C2_MultiChunkSplice ==
    (/\ CommitCallEnded
     /\ Len(TheChunks) >= 2
     /\ NonOverlapping(SplitLines(TheOriginal), TheChunks))
    => /\ pc = "returned"
       /\ commit[1].val.new_content =
              TextOf(ReplaceSlices(SplitLines(TheOriginal), SplitLines(TheOriginal),
                                   {TheChunks[i] : i \in 1..Len(TheChunks)}),
                     TheOriginal)

\* C5: if a chunk of the Update has non-empty del_lines that occur nowhere in the
\* original lines, patch_to_commit raises an error naming the file, returns no
\* Commit, and nothing is written.
C5_ContextNotFoundRaises ==
    (/\ CommitCallEnded
     /\ \E i \in 1..Len(TheChunks) :
           /\ TheChunks[i].del_lines /= <<>>
           /\ ~Occurs(SplitLines(TheOriginal), TheChunks[i].del_lines))
    => /\ pc = "raised"
       /\ result = Raised(DiffError("Failed to apply chunk in", actions[1].key))
       /\ commit = <<>>
       /\ Called({"write", "remove"}) = {}
       /\ \A p \in DOMAIN files : files[p] = Absent

C5_Witness ==
    /\ CommitCallEnded
    /\ pc = "raised"
    /\ Len(TheChunks) = 2
    /\ TheChunks[1].del_lines /= <<>>
    /\ Occurs(SplitLines(TheOriginal), TheChunks[1].del_lines)
    /\ TheChunks[1].ins_lines /= TheChunks[1].del_lines
    /\ ~Occurs(SplitLines(TheOriginal), TheChunks[2].del_lines)

----------------------------------------------------------------------------
(* Properties of process_patch and text_to_patch *)

WriteOrRemove == {"write", "remove"}

\* the changes of the Commit that carry a rename target
Renames == {k \in 1..Len(commit) :
                commit[k].val.type = UPDATE /\ Truthy(commit[k].val.move_path)}

\* C3: for an Update with a rename target, remove(original path) is invoked only
\* right after write(new path, new content), and a run that returns has invoked
\* both, in that order.
C3_RenameWritesThenRemoves ==
    \A k \in Renames :
        LET w == Call("write", commit[k].val.move_path, commit[k].val.new_content)
            r == Call("remove", commit[k].key, None)
        IN  /\ \A i \in 1..Len(calls) :
                  calls[i] = r => (i > 1 /\ calls[i - 1] = w)
            /\ (pc = "returned" /\ entry = "process_patch")
                  => \E i \in 1..(Len(calls) - 1) : calls[i] = w /\ calls[i + 1] = r

C3_Witness ==
    /\ pc = "returned"
    /\ entry = "process_patch"
    /\ \E k \in Renames : commit[k].val.move_path /= commit[k].key
    /\ Len(commit) = 2

\* the whole patch text has been parsed
ParsedAll ==
    /\ StartsWith(text, BEGIN_PATCH)
    /\ lines = SplitLines(text)
    /\ is_done(lines, index, {END_PATCH})
    /\ cur = NoCur

\* the Commit holds a change for every action of the Patch, and every chunk of
\* every Update is found in the original lines of its file
CommitComplete ==
    /\ Len(commit) = Len(actions)
    /\ \A k \in 1..Len(actions) :
          /\ commit[k].key = actions[k].key
          /\ commit[k].val.type = actions[k].val.type
          /\ actions[k].val.type \in {UPDATE, DELETE} => HasKey(orig, actions[k].key)
          /\ actions[k].val.type = UPDATE =>
                \A c \in 1..Len(actions[k].val.chunks) :
                    \/ actions[k].val.chunks[c].del_lines = <<>>
                    \/ Occurs(SplitLines(Lookup(orig, actions[k].key)),
                              actions[k].val.chunks[c].del_lines)

\* C4: write and remove are invoked only after the whole patch is parsed and the
\* Commit of every path is computed; a run that fails in parsing or in commit
\* building has invoked neither.
C4_NoEffectBeforeCommit ==
    /\ Called(WriteOrRemove) /= {}
          => (pc \in {"apply", "returned", "raised"} /\ ParsedAll /\ CommitComplete)
    /\ (pc = "raised" /\ result.error.type /= "OperationError")
          => Called(WriteOrRemove) = {}

C4_Witness ==
    /\ pc = "raised"
    /\ entry = "process_patch"
    /\ result.error.what = "Failed to apply chunk in"
    /\ Len(actions) = 2
    /\ actions[1].val.type = ADD
    /\ Len(commit) = 1
    /\ Called(WriteOrRemove) = {}

\* the path named by a directive line ("" for any other line)
UpdatePathOf(line) ==
    IF StartsWith(line, UPDATE_FILE) THEN DropPrefix(line, Len(UPDATE_FILE)) ELSE EmptyStr
AddPathOf(line) ==
    IF StartsWith(line, ADD_FILE) THEN DropPrefix(line, Len(ADD_FILE)) ELSE EmptyStr
DeletePathOf(line) ==
    IF StartsWith(line, DELETE_FILE) THEN DropPrefix(line, Len(DELETE_FILE)) ELSE EmptyStr
DirectivePathOf(line) == UpdatePathOf(line) \o AddPathOf(line) \o DeletePathOf(line)

DuplicateErrorOf(line) ==
    IF StartsWith(line, UPDATE_FILE) THEN "Update File Error: Duplicate Path"
    ELSE IF StartsWith(line, ADD_FILE) THEN "Add File Error: Duplicate Path"
    ELSE "Delete File Error: Duplicate Path"

\* the parser is at the head of the loop of Parser.parse, on a directive line
AtDirective == pc = "parse" /\ ~is_done(lines, index, {END_PATCH})
                            /\ Truthy(DirectivePathOf(lines[index + 1]))

\* C6: when the parser meets a directive (Update, Add or Delete) whose path an
\* earlier directive (of any kind) has registered, it raises the duplicate-path
\* error there: no Patch is returned, no content is computed, nothing is written.
C6_DuplicatePathRaises ==
    [][(AtDirective /\ HasKey(actions, DirectivePathOf(lines[index + 1])))
        => /\ pc' = "raised"
           /\ result' = Raised(DiffError(DuplicateErrorOf(lines[index + 1]),
                                         DirectivePathOf(lines[index + 1])))
           /\ commit' = <<>>
           /\ new_lines' = <<>>
           /\ files' = files
           /\ calls' = calls
           /\ \A i \in 1..Len(calls) : calls[i].op = "read"]_vars

C6_Witness ==
    /\ pc = "raised"
    /\ entry = "process_patch"
    /\ result.error.what = "Delete File Error: Duplicate Path"
    /\ Len(actions) = 1
    /\ actions[1].val.type = ADD
    /\ actions[1].key = result.error.arg

MissingFileErrors == {"Update File Error: Missing File", "Delete File Error: Missing File"}

\* the parser is at an Update File or Delete File directive whose path is not a
\* key of the snapshot
AtMissing ==
    /\ AtDirective
    /\ Truthy(UpdatePathOf(lines[index + 1]) \o DeletePathOf(lines[index + 1]))
    /\ ~HasKey(orig, DirectivePathOf(lines[index + 1]))

\* C7 as claimed: every Update File or Delete File directive whose path is not a
\* key of the snapshot makes text_to_patch raise the missing-file error.
C7_MissingFileRaises ==
    [][AtMissing
        => /\ pc' = "raised"
           /\ result'.error.type = "DiffError"
           /\ result'.error.what \in MissingFileErrors
           /\ result'.error.arg = DirectivePathOf(lines[index + 1])]_vars

\* the error the parser raises at an Update File or Delete File directive whose
\* path the snapshot lacks
MissingOutcome(ls, idx, acts) ==
    LET line == ls[idx + 1]
        path == DirectivePathOf(line)
        upd  == StartsWith(line, UPDATE_FILE)
    IN  IF HasKey(acts, path) THEN DiffError(DuplicateErrorOf(line), path)
        ELSE IF upd /\ idx + 1 >= Len(ls) THEN DiffError("Index", <<>>)
        ELSE DiffError(IF upd THEN "Update File Error: Missing File"
                              ELSE "Delete File Error: Missing File", path)

\* C7 as amended: text_to_patch raises at every Update File or Delete File
\* directive whose path is not a key of the snapshot: the duplicate-path error
\* when an earlier directive registered the path, the index error when an Update
\* directive is the last line of the text, and the missing-file error otherwise;
\* for an Update the error is raised before any hunk of the directive is parsed
\* and no action is registered for the path.
C7_MissingFileRaisesAfterDuplicateCheck ==
    [][AtMissing
        => /\ pc' = "raised"
           /\ result' = Raised(MissingOutcome(lines, index, actions))
           /\ actions' = actions
           /\ cur' = NoCur
           /\ index' <= index + 2
           /\ \A i \in (index + 2)..index' : ~StartsWith(lines[i], HUNK)]_vars

C7_Witness ==
    /\ pc = "raised"
    /\ entry = "text_to_patch"
    /\ result.error.what = "Update File Error: Missing File"
    /\ index < Len(lines)
    /\ StartsWith(lines[index + 1], HUNK)
    /\ Len(actions) = 1

----------------------------------------------------------------------------
(* The entry checks and the applicator *)

\* the calls of the injected operation `op` that raised
FailedCalls(op) ==
    {i \in 1..Len(calls) : calls[i].op = op /\ outcomes[i] = FAILED}

\* C8: when the injected read fails for an Update or Delete path that is absent,
\* the caller of process_patch receives the engine's missing-file error for that
\* path, not the failure of the read.
C8_AbsentPathIsMissingFileError ==
    \A i \in FailedCalls("read") :
        /\ result.kind = "raise"
        /\ result.error.type = "DiffError"
        /\ result.error.what \in MissingFileErrors
        /\ result.error.arg = calls[i].path

\* C9: while the text does not begin with the begin-patch marker, a call of
\* text_to_patch or process_patch is either about to make its header check or
\* has raised the malformed-patch error; it has parsed nothing and has invoked
\* no injected operation.
C9_MalformedHeaderFailsImmediately ==
    ~StartsWith(text, BEGIN_PATCH)
        => /\ \/ pc \in {"pp_begin", "t2p_begin"} /\ result = NoResult
              \/ pc = "raised" /\ result = Raised(MalformedHeader)
           /\ calls = <<>>
           /\ lines = <<>>
           /\ paths = <<>>
           /\ commit = <<>>

C9_Witness ==
    /\ entry = "process_patch"
    /\ pc = "raised"
    /\ result = Raised(MalformedHeader)
    /\ identify_files_needed(text) /= <<>>
    /\ \E p \in Paths : FileExists(files, p)

\* the step is a call of write_fn or remove_fn that raises
OperationFails ==
    /\ pc = "apply"
    /\ Len(outcomes') = Len(outcomes) + 1
    /\ outcomes'[Len(outcomes')] = FAILED

\* C10: a write or remove that fails while process_patch applies a change ends
\* the call with that failure; the store keeps what the earlier operations did to
\* it, and after the failure no operation is invoked and nothing is returned.
C10_OperationFailurePropagates ==
    [][/\ OperationFails
            => /\ pc' = "raised"
               /\ result' = Raised([type |-> "OperationError", what |-> NextOp.op,
                                    arg |-> NextOp.path])
               /\ calls' = Append(calls, NextOp)
               /\ files' = files
               /\ ci' = ci
       /\ (pc = "apply" /\ ~OperationFails /\ Len(calls') > Len(calls))
            => FailedCalls("write") \cup FailedCalls("remove") = {}
       /\ pc = "raised"
            => /\ pc' = "raised"
               /\ result' = result
               /\ calls' = calls
               /\ files' = files]_vars

C10_Witness ==
    /\ pc = "raised"
    /\ result.error.type = "OperationError"
    /\ ci = 1
    /\ Len(commit) = 2
    /\ \E i \in 1..Len(calls) :
          /\ calls[i].op = "write"
          /\ outcomes[i] = COMPLETED
          /\ files[calls[i].path] = calls[i].content
          /\ calls[i].content \notin {FileA, FileB}

----------------------------------------------------------------------------
(* The operations of a successful run *)

\* the operations the changes of a Commit call for: a remove per Delete, a write
\* of the new content per Add and per Update, to the new path and with a remove
\* of the original path when the Update renames
RECURSIVE OpsCalledFor(_)
OpsCalledFor(c) ==
    IF c = <<>> THEN <<>>
    ELSE LET path == c[1].key
             ch == c[1].val
         IN  (IF ch.type = DELETE THEN <<Call("remove", path, None)>>
              ELSE IF ch.type = ADD THEN <<Call("write", path, ch.new_content)>>
              ELSE IF ch.move_path = None THEN <<Call("write", path, ch.new_content)>>
              ELSE <<Call("write", ch.move_path, ch.new_content),
                     Call("remove", path, None)>>)
             \o OpsCalledFor(Tail(c))

Count(seq, x) == Cardinality({i \in 1..Len(seq) : seq[i] = x})

SameOps(s, t) ==
    /\ Len(s) = Len(t)
    /\ \A i \in 1..Len(s) : Count(s, s[i]) = Count(t, s[i])

IsWriteOrRemove(c) == c.op \in {"write", "remove"}

\* C11: process_patch returns "Done!" only when the last change of the Commit has
\* been applied, and the write and remove calls of that run, all completed, are
\* exactly the ones the changes call for, each once.
C11_DoneAfterExactlyTheOperations ==
    result = Returned(Done)
        => /\ pc = "returned"
           /\ ci = Len(commit)
           /\ \A i \in 1..Len(outcomes) : outcomes[i] = COMPLETED
           /\ SameOps(SelectSeq(calls, IsWriteOrRemove), OpsCalledFor(commit))

C11_Witness ==
    /\ result = Returned(Done)
    /\ Len(commit) = 2
    /\ \E i, j \in 1..2 :
          /\ commit[i].val.type = UPDATE
          /\ commit[i].val.move_path /= None
          /\ commit[j].val.type = DELETE
    /\ Len(SelectSeq(calls, IsWriteOrRemove)) = 3

----------------------------------------------------------------------------
(* The body of a hunk *)

\* the parser reads a non-empty body line of the hunk it is in
ReadsBodyLine ==
    /\ pc = "chunk"
    /\ ~is_done(lines, index, {HUNK, STARS})
    /\ lines[index + 1] /= EmptyStr

\* the parser is on the header line of a hunk
AtHunkHeader == pc = "update_if" /\ startswith(lines, index, HUNK)

\* the lines recorded in a sequence of chunks
RecordedLines(chunks) ==
    UNION { {chunks[k].del_lines[i] : i \in 1..Len(chunks[k].del_lines)}
            \cup {chunks[k].ins_lines[i] : i \in 1..Len(chunks[k].ins_lines)} :
            k \in 1..Len(chunks) }

\* C12: a non-empty body line of a hunk goes to the end of del_lines only (less
\* its marker) when it starts with "-", to the end of ins_lines only (less its
\* marker) when it starts with "+", and unchanged to the end of both otherwise;
\* the header line opens an empty chunk and its text is recorded in no chunk.
C12_BodyLinesClassified ==
    [][/\ ReadsBodyLine
            => LET line == lines[index + 1]
                   n == Len(cur.chunks)
                   old == cur.chunks[n]
                   new == cur'.chunks[n]
               IN  /\ index' = index + 1
                   /\ Len(cur'.chunks) = n
                   /\ \A k \in 1..(n - 1) : cur'.chunks[k] = cur.chunks[k]
                   /\ IF line[1] = "-"
                      THEN /\ new.del_lines = Append(old.del_lines, Tail(line))
                           /\ new.ins_lines = old.ins_lines
                      ELSE IF line[1] = "+"
                      THEN /\ new.ins_lines = Append(old.ins_lines, Tail(line))
                           /\ new.del_lines = old.del_lines
                      ELSE /\ new.del_lines = Append(old.del_lines, line)
                           /\ new.ins_lines = Append(old.ins_lines, line)
       /\ AtHunkHeader
            => /\ index' = index + 1
               /\ Len(cur'.chunks) = Len(cur.chunks) + 1
               /\ cur'.chunks[Len(cur'.chunks)].del_lines = <<>>
               /\ cur'.chunks[Len(cur'.chunks)].ins_lines = <<>>
               /\ \A k \in 1..Len(cur.chunks) : cur'.chunks[k] = cur.chunks[k]
       /\ \A l \in RecordedLines(cur'.chunks) : ~StartsWith(l, HUNK)]_vars

C12_Witness ==
    /\ entry = "text_to_patch"
    /\ pc = "returned"
    /\ \E i \in 1..Len(actions) :
          /\ Len(actions[i].val.chunks) = 1
          /\ actions[i].val.chunks[1].del_lines = << <<"b">>, <<"a">> >>
          /\ actions[i].val.chunks[1].ins_lines = << <<"b">> >>
    /\ \E k \in 1..Len(lines) : lines[k] = HUNK \o <<"h">>

----------------------------------------------------------------------------
(* find_context called directly *)

FindEnded == entry = "find_context" /\ pc /= "fc_call"

\* the indices at or after the start offset where the whole context occurs
FullMatches ==
    {s \in args.start..Len(args.lines) : OccursAt(args.lines, args.context, s)}

Least(S) == CHOOSE s \in S : \A t \in S : s <= t

\* C13: without the end-of-file allowance, find_context on a non-empty context
\* returns (s, s + len(context)) for the least index s >= start where the context
\* occurs in the lines, and raises "Context not found" exactly when there is none.
C13_FirstMatchAtOrAfterStart ==
    (FindEnded /\ ~args.eof /\ args.context /= <<>>)
        => IF FullMatches = {}
           THEN result = Raised(ContextNotFound)
           ELSE result = Returned(<<Least(FullMatches),
                                    Least(FullMatches) + Len(args.context)>>)

C13_Witness ==
    /\ FindEnded
    /\ ~args.eof
    /\ args.start = 1
    /\ OccursAt(args.lines, args.context, 0)
    /\ Len(args.context) = 1
    /\ result = Returned(<<1, 2>>)

\* the index at which the context has to start for its last line to fall exactly
\* one position past the end of the lines
TailStart == Len(args.lines) - Len(args.context) + 1

\* every line of the context but the last matches the final lines of the file,
\* from an index the scan reaches
TailFits ==
    /\ args.context /= <<>>
    /\ TailStart >= args.start
    /\ SubSeq(args.lines, TailStart + 1, Len(args.lines))
         = SubSeq(args.context, 1, Len(args.context) - 1)

LeastFullMatch ==
    Returned(<<Least(FullMatches), Least(FullMatches) + Len(args.context)>>)

TailMatch == Returned(<<TailStart, Len(args.lines)>>)

\* C14 as claimed: with eof true a context that fits the tail of the file with its
\* last line one position past the end is accepted with the span up to the end of
\* the file; with eof false it is rejected; a context that fits neither fully nor
\* at the tail is rejected in both modes; a full match is preferred.
C14_TailMatchAccepted ==
    (FindEnded /\ args.context /= <<>>)
        => IF FullMatches /= {} THEN result = LeastFullMatch
           ELSE IF args.eof /\ TailFits THEN result = TailMatch
           ELSE result = Raised(ContextNotFound)

\* C14 as amended: the same, for a tail match of a context of two or more lines;
\* a context of a single line is never matched past the end.
C14_TailMatchOfTwoOrMoreLines ==
    (FindEnded /\ args.context /= <<>>)
        => IF FullMatches /= {} THEN result = LeastFullMatch
           ELSE IF args.eof /\ TailFits /\ Len(args.context) >= 2 THEN result = TailMatch
           ELSE result = Raised(ContextNotFound)

C14_Witness ==
    /\ FindEnded
    /\ args.eof
    /\ Len(args.context) = 2
    /\ Len(args.lines) = 2
    /\ FullMatches = {}
    /\ args.context[2] /= args.context[1]
    /\ result = Returned(<<1, 2>>)

----------------------------------------------------------------------------
(* Exact matching on the way to the file store *)

\* _get_updated_file is about to locate the next chunk of the Update it rebuilds
LocatesChunk == pc = "guf" /\ chi < Len(actions[bi + 1].val.chunks)

TheDelLines == actions[bi + 1].val.chunks[chi + 1].del_lines

\* the lines of the file the Update rebuilds
OriginalLines == SplitLines(Lookup(orig, actions[bi + 1].key))

FailedToApply == Raised(DiffError("Failed to apply chunk in", actions[bi + 1].key))

\* C15: the fuzz of the parser is 0 throughout and in the pair text_to_patch
\* returns; a chunk is spliced only if its del_lines occur contiguously in the
\* original lines of the file, and otherwise (also when they fit the tail of the
\* file with the last line one past its end) the build fails.
C15_ExactOrFail ==
    [][/\ fuzz' = 0
       /\ (entry = "text_to_patch" /\ pc' = "returned") => result'.value.fuzz = 0
       /\ LocatesChunk
            => IF Occurs(OriginalLines, TheDelLines)
               THEN pc' = "guf" /\ chi' = chi + 1 /\ result' = result
               ELSE /\ pc' = "raised"
                    /\ result' = FailedToApply
                    /\ commit' = commit
                    /\ calls' = calls]_vars

C15_Witness ==
    /\ entry = "process_patch"
    /\ pc = "raised"
    /\ bi < Len(actions)
    /\ chi < Len(actions[bi + 1].val.chunks)
    /\ result = FailedToApply
    /\ find_context(OriginalLines, TheDelLines, 0, TRUE).found
    /\ \A i \in 1..Len(calls) : calls[i].op = "read"

----------------------------------------------------------------------------
(* The terminator at the end of a rebuilt file *)

\* the Update changes of the Commit built so far
UpdateChanges == {i \in 1..Len(commit) : commit[i].val.type = UPDATE}

\* C16: the new content of every Update change ends with a line terminator if
\* the original content of the file does, whatever the chunks delete or insert.
C16_TerminatorPreserved ==
    \A i \in UpdateChanges :
        EndsWithNL(commit[i].val.old_content) => EndsWithNL(commit[i].val.new_content)

C16_Witness ==
    /\ entry = "patch_to_commit"
    /\ pc = "returned"
    /\ \E i \in UpdateChanges :
          /\ Len(SplitLines(commit[i].val.old_content)) = 2
          /\ Len(TheChunks) = 2
          /\ \A k \in 1..2 : TheChunks[k].ins_lines = <<>> /\ TheChunks[k].del_lines /= <<>>
          /\ commit[i].val.new_content = <<NL>>

----------------------------------------------------------------------------
(* Lines the top level does not recognise *)

IsDirectiveLine(line) ==
    \/ StartsWith(line, UPDATE_FILE)
    \/ StartsWith(line, ADD_FILE)
    \/ StartsWith(line, DELETE_FILE)

\* the loop of Parser.parse is on a non-blank line that is neither a directive
\* nor the end marker
AtUnrecognisedLine ==
    /\ pc = "parse"
    /\ ~is_done(lines, index, {END_PATCH})
    /\ lines[index + 1] /= EmptyStr
    /\ ~IsDirectiveLine(lines[index + 1])

----------------------------------------------------------------------------
(* The text of an added file *)

\* the 1-based position of the first Add File directive for the path p
AddLineOf(p) == Least({d \in 1..Len(lines) : lines[d] = ADD_FILE \o p})

\* the 1-based position of the first line after d that starts with "*** ", or
\* the position past the last line
BodyEnd(d) ==
    Least({e \in (d + 1)..(Len(lines) + 1) :
              e = Len(lines) + 1 \/ StartsWith(lines[e], STARS)})

\* the lines between the directive at d and the next "*** " line
BodyOf(d) == SubSeq(lines, d + 1, BodyEnd(d) - 1)

AddActions == {i \in 1..Len(actions) : actions[i].val.type = ADD}

\* C18: the new-file text of an Add action is every line between its directive
\* and the next "*** " line, in order, unaltered, none omitted, joined by newline
\* with no newline at the end.
C18_AddBodyVerbatim ==
    \A i \in AddActions :
        actions[i].val.new_file = JoinLines(BodyOf(AddLineOf(actions[i].key)))

----------------------------------------------------------------------------
(* The order of the changes *)

\* the orders in which n changes can be taken
Orders(n) == {f \in [1..n -> 1..n] : \A i, j \in 1..n : f[i] = f[j] => i = j}

\* the store after the changes of the Commit are applied in the order perm
StoreAfter(perm) == ApplyOpsTo(files, OpsInOrder(commit, perm))

\* process_patch has built the Commit and is about to apply its first change
CommitBuilt == entry = "process_patch" /\ pc = "apply" /\ ci = 0 /\ oi = 0

\* C19: any two orders of the changes of a built Commit that both apply to the
\* end leave the file store in the same state.
C19_OrderIndependent ==
    CommitBuilt
        => \A p, q \in Orders(Len(commit)) :
              (StoreAfter(p).done /\ StoreAfter(q).done)
                  => StoreAfter(p).files = StoreAfter(q).files

----------------------------------------------------------------------------
(* The identify-only entry points *)

\* the positions, in order, of the lines of the text that satisfy Test
Positions(Test(_)) ==
    LET ls == SplitLines(text)
        Keep(i) == Test(ls[i])
    IN  SelectSeq([i \in 1..Len(ls) |-> i], Keep)

IsNeededLine(line) == StartsWith(line, UPDATE_FILE) \/ StartsWith(line, DELETE_FILE)
IsAddLine(line) == StartsWith(line, ADD_FILE)

\* the paths the lines at the positions pos name
PathsAt(pos) == [k \in 1..Len(pos) |-> DirectivePathOf(SplitLines(text)[pos[k]])]

\* C20: identify_files_needed returns the paths of the Update File and Delete
\* File lines of the text, in order, and nothing else; identify_files_added
\* returns the paths of the Add File lines, in order, and nothing else; neither
\* touches the file store nor calls an injected operation.
C20_IdentifyListsPaths ==
    [][/\ entry = "identify_files_needed"
            => result' = Returned(PathsAt(Positions(IsNeededLine)))
       /\ entry = "identify_files_added"
            => result' = Returned(PathsAt(Positions(IsAddLine)))
       /\ entry \in {"identify_files_needed", "identify_files_added"}
            => /\ pc' = "returned"
               /\ files' = files
               /\ calls' = <<>>
               /\ commit' = <<>>]_vars

C20_Witness ==
    /\ entry = "identify_files_needed"
    /\ pc = "returned"
    /\ result = Returned(<<PathB>>)
    /\ identify_files_added(text) = <<PathA>>
    /\ Positions(IsAddLine)[1] < Positions(IsNeededLine)[1]

----------------------------------------------------------------------------
(* The approval policy *)

ApprovalEnded == entry = "get_command_approval" /\ pc = "returned"

\* C21: get_command_approval approves exactly when a patch is supplied and the
\* mode is AUTO_EDIT or FULL_AUTO, or no patch is supplied and the mode is
\* FULL_AUTO; SUGGEST approves nothing, and what AUTO_EDIT approves FULL_AUTO
\* approves too.
C21_ApprovedExactlyByMode ==
    ApprovalEnded
        => /\ result.value.approved
                <=> \/ args.patch /= NoPatch /\ args.mode \in {AUTO_EDIT, FULL_AUTO}
                    \/ args.patch = NoPatch /\ args.mode = FULL_AUTO
           /\ args.mode = SUGGEST => ~result.value.approved
           /\ (args.mode = AUTO_EDIT /\ result.value.approved)
                => get_command_approval(FULL_AUTO, args.command, args.patch).approved

C21_Witness ==
    /\ ApprovalEnded
    /\ args.mode = AUTO_EDIT
    /\ args.patch = NoPatch
    /\ args.command = <<"echo", "test">>
    /\ ~result.value.approved

----------------------------------------------------------------------------
(* Termination of the parser *)

CallEnded == pc \in {"returned", "raised"}

\* C22: every call of text_to_patch ends: it returns a Patch or raises.
C22_ParseTerminates == <>CallEnded

----------------------------------------------------------------------------
(* The end of a hunk *)

\* the parser leaves the hunk it is in
LeavesHunk == pc = "chunk" /\ pc' /= "chunk"

\* the parser is on a blank line of the hunk it is in
AtBlankBodyLine ==
    /\ pc = "chunk"
    /\ ~is_done(lines, index, {HUNK, STARS})
    /\ lines[index + 1] = EmptyStr

\* C23: a hunk ends only where the next line starts with "@@ " or "*** " (or
\* where the text ends): every line before that point, a blank line included,
\* is read into the hunk and recorded in its del_lines and ins_lines.
C23_HunkEndsAtMarkerOnly ==
    [][/\ LeavesHunk => (index' = index /\ is_done(lines, index, {HUNK, STARS}))
       /\ AtBlankBodyLine
            => LET n == Len(cur.chunks)
               IN  /\ pc' = "chunk"
                   /\ Len(cur'.chunks) = n
                   /\ cur'.chunks[n].del_lines = Append(cur.chunks[n].del_lines, EmptyStr)
                   /\ cur'.chunks[n].ins_lines = Append(cur.chunks[n].ins_lines, EmptyStr)]_vars

----------------------------------------------------------------------------
(* Where a chunk is located *)

TheInsLines == actions[bi + 1].val.chunks[chi + 1].ins_lines

\* the position of del in the lines ls, searched from offset 0
PositionIn(ls, del) == IF del = <<>> THEN 0 ELSE FirstAt(ls, del)

\* C24: a chunk is located at the first occurrence of its del_lines in the
\* original lines of the file, whatever the other chunks of the Update are and
\* whatever they have made of the working copy: the slice of the working copy
\* at that position is replaced, and del_lines that do not occur in the
\* original lines (even if they occur in the working copy) fail the build.
C24_LocatedInOriginal ==
    [][LocatesChunk
         => IF TheDelLines = <<>> \/ Occurs(OriginalLines, TheDelLines)
            THEN LET s == PositionIn(OriginalLines, TheDelLines)
                 IN  /\ pc' = "guf"
                     /\ chi' = chi + 1
                     /\ new_lines' = SliceAssign(new_lines, s, s + Len(TheDelLines),
                                                 TheInsLines)
            ELSE /\ pc' = "raised"
                 /\ result' = FailedToApply]_vars

\* the second chunk's del_lines occur in what the first chunk inserted, not in
\* the original lines, and the build has failed
C24_Witness ==
    /\ entry = "patch_to_commit"
    /\ pc = "raised"
    /\ bi < Len(actions)
    /\ chi = 1
    /\ chi < Len(actions[bi + 1].val.chunks)
    /\ result = FailedToApply
    /\ Occurs(new_lines, TheDelLines)
    /\ ~Occurs(OriginalLines, TheDelLines)
    /\ actions[bi + 1].val.chunks[1].ins_lines = TheDelLines

----------------------------------------------------------------------------
(* Hunks that only insert *)

\* C25: an Update whose single chunk has empty del_lines is located at index 0
\* with a span of no lines: the build succeeds and the new content is the
\* chunk's ins_lines followed by every original line, none removed (terminator
\* at the end kept as in the original).
C25_InsertOnlyAtTop ==
    (/\ CommitCallEnded
     /\ Len(TheChunks) = 1
     /\ TheChunks[1].del_lines = <<>>)
    => /\ pc = "returned"
       /\ find_context(SplitLines(TheOriginal), <<>>, 0, FALSE)
              = [found |-> TRUE, start |-> 0, end |-> 0]
       /\ commit[1].val.new_content =
              TextOf(TheChunks[1].ins_lines \o SplitLines(TheOriginal), TheOriginal)

C25_Witness ==
    /\ CommitCallEnded
    /\ pc = "returned"
    /\ Len(TheChunks) = 1
    /\ TheChunks[1].del_lines = <<>>
    /\ Len(TheChunks[1].ins_lines) = 1
    /\ Len(SplitLines(TheOriginal)) = 2
    /\ Len(SplitLines(commit[1].val.new_content)) = 3

----------------------------------------------------------------------------
(* The file a rename leaves behind *)

\* no other change of the Commit has the path p as its path or rename target
OnlyTargetOf(k, p) ==
    \A j \in 1..Len(commit) :
        j /= k => (commit[j].key /= p /\ commit[j].val.move_path /= p)

\* C26: when process_patch has returned, the rename target of every Update that
\* carries one (and that no other change of the patch touches) exists in the
\* store and holds the new content, also when the target is the Update's own
\* path.
C26_RenameTargetHoldsContent ==
    (entry = "process_patch" /\ pc = "returned")
    => \A k \in Renames :
           OnlyTargetOf(k, commit[k].val.move_path)
           => files[commit[k].val.move_path] = OrEmpty(commit[k].val.new_content)

----------------------------------------------------------------------------
(* The files process_patch reads *)

\* the actions of the Patch that need the content of their file
NeedingActions == {k \in 1..Len(actions) : actions[k].val.type \in {UPDATE, DELETE}}

ReadsOf(p) == {i \in Called({"read"}) : calls[i].path = p}

\* the parser has returned the Patch to process_patch
Parsed == entry = "process_patch" /\ pc \in {"p2c", "guf", "apply", "returned"}

\* C27: read is invoked exactly once for the path of every Update or Delete
\* action of the parsed Patch and for no other path (lines after the End Patch
\* line cause no read), and every read comes before the first write or remove.
C27_ReadsExactlyTheActions ==
    /\ \A i \in Called({"read"}), j \in Called(WriteOrRemove) : i < j
    /\ Parsed
         => /\ \A k \in NeedingActions : Cardinality(ReadsOf(actions[k].key)) = 1
            /\ \A i \in Called({"read"}) :
                   \E k \in NeedingActions : actions[k].key = calls[i].path

----------------------------------------------------------------------------
(* What process_patch leaves alone *)

MovePathOf(line) ==
    IF StartsWith(line, MOVE_TO) THEN DropPrefix(line, Len(MOVE_TO)) ELSE EmptyStr

\* the paths of the directives of the patch and its rename targets
NamedPaths ==
    {DirectivePathOf(lines[i]) : i \in 1..Len(lines)}
        \cup {MovePathOf(lines[i]) : i \in 1..Len(lines)}

\* the change of the Commit that calls for the operation c
WriteIsFor(c) ==
    {k \in 1..Len(commit) :
        \/ commit[k].val.type = ADD /\ commit[k].key = c.path
        \/ /\ commit[k].val.type = UPDATE
           /\ c.path = (IF Truthy(commit[k].val.move_path)
                        THEN commit[k].val.move_path ELSE commit[k].key)}

RemoveIsFor(c) ==
    {k \in 1..Len(commit) :
        /\ commit[k].key = c.path
        /\ \/ commit[k].val.type = DELETE
           \/ commit[k].val.type = UPDATE /\ Truthy(commit[k].val.move_path)}

\* C28: write and remove are invoked only on the path of a directive or on a
\* rename target, and the store entry of every other path stays as it is;
\* every write is the write of an Add or an Update (none is invoked for a
\* Delete) and every remove is the remove of a Delete or of an Update that
\* renames (none is invoked for an Add or an Update without rename).
C28_Frame ==
    [][/\ files' /= files
            => \A p \in DOMAIN files : p \notin NamedPaths => files'[p] = files[p]
       /\ Len(calls') > Len(calls)
            => LET c == calls'[Len(calls')]
               IN  /\ c.op \in WriteOrRemove => c.path \in NamedPaths
                   /\ c.op = "write" => WriteIsFor(c) /= {}
                   /\ c.op = "remove" => RemoveIsFor(c) /= {}]_vars

\* a patch that names the path a only has been applied to a store that holds
\* the path b as well, by a single write
C28_Witness ==
    /\ entry = "process_patch"
    /\ pc = "returned"
    /\ NamedPaths \cap DOMAIN files = {PathA}
    /\ files[PathB] = FileB
    /\ Len(commit) = 1
    /\ commit[1].val.type = UPDATE
    /\ Called({"write"}) /= {}
    /\ Called({"remove"}) = {}

----------------------------------------------------------------------------
(* The order in which the changes are applied *)

\* the paths of the directive lines of the patch, in the order of the text
DirectivePaths ==
    LET ds == SelectSeq(lines, IsDirectiveLine)
    IN  [k \in 1..Len(ds) |-> DirectivePathOf(ds[k])]

IsPrefix(s, t) == Len(s) <= Len(t) /\ SubSeq(t, 1, Len(s)) = s

\* C29: the changes are applied in the order of their directives in the patch
\* text: the Commit lists the changes in that order and the write and remove
\* calls made so far are, in order, the operations of its first changes, so no
\* operation of a later directive comes before one of an earlier directive.
C29_AppliedInDirectiveOrder ==
    (entry = "process_patch" /\ Called(WriteOrRemove) /= {})
    => /\ [k \in 1..Len(commit) |-> commit[k].key] = DirectivePaths
       /\ IsPrefix(SelectSeq(calls, IsWriteOrRemove), OpsCalledFor(commit))

\* both changes of a patch of two directives have been applied, the first by
\* a write and a remove
C29_Witness ==
    /\ entry = "process_patch"
    /\ pc = "returned"
    /\ Len(DirectivePaths) = 2
    /\ DirectivePaths[1] /= DirectivePaths[2]
    /\ Len(SelectSeq(calls, IsWriteOrRemove)) = 3
    /\ commit[1].val.type = UPDATE
    /\ commit[2].val.type = ADD

----------------------------------------------------------------------------
(* The walk of load_project_doc *)

\* load_project_doc was called without an explicit path
Walks == entry = "load_project_doc" /\ ~ExplicitGiven(args.explicit_path)

\* the directories from cwd up to, not including, the root, nearest first
WalkedDirs == [k \in 1..args.cwd |-> args.cwd + 1 - k]

StopsWalk(d) == FirstDocName(args.tree, d) > 0 \/ GIT \in args.tree[d]

\* what the walk is to return: the content of the first document of the
\* nearest directory that has a document or .git, None if there is none
ExpectedDoc ==
    IF \E k \in 1..Len(WalkedDirs) : StopsWalk(WalkedDirs[k])
    THEN LET k == CHOOSE x \in 1..Len(WalkedDirs) :
                      /\ StopsWalk(WalkedDirs[x])
                      /\ \A y \in 1..(x - 1) : ~StopsWalk(WalkedDirs[y])
             d == WalkedDirs[k]
             i == FirstDocName(args.tree, d)
         IN  IF i > 0
             THEN Truncated(ContentOf(DocPath(d, DocNames[i])), args.max_size)
             ELSE None
    ELSE None

\* C30: without an explicit path, every examination of a directory ends the
\* walk (a document or .git is there) or moves to the parent directory, so no
\* directory is examined twice and the call ends; it returns the content of
\* the first document of the nearest directory that has one, or None when it
\* stops at a directory with .git or at the root.
C30_WalkStopsAtFirstDocument ==
    [][Walks
         => /\ pc = "lpd_for"
                 => IF StopsWalk(current)
                    THEN pc' \in {"lpd_check", "lpd_read", "returned"}
                    ELSE current' = Parent(current) /\ current' /= current
            /\ pc' = "returned" => result' = Returned(ExpectedDoc)]_vars

====
